---- MODULE Spec2Model ----
(***************************************************************************)
(* Model of the serverless profile handler GET /api/profile/[username].    *)
(*                                                                         *)
(* The repository holds the handler in api/profile/[username].js and a     *)
(* later revision of the same file; the variable `file` says which of the  *)
(* two is deployed ("bracket" or "rev").  api/profile/username.js holds a  *)
(* third copy whose deepFindUser is the same search as walk.  JavaScript   *)
(* values are tagged records [k |-> kind, v |-> payload]; strings are      *)
(* sequences of one-character strings so that the two regular expressions  *)
(* can be run on them character by character.                              *)
(***************************************************************************)
EXTENDS Integers, Sequences, FiniteSets, TLC

(***************************************************************************)
(* JavaScript values                                                       *)
(***************************************************************************)
Undef == [k |-> "undef", v |-> 0]
Null == [k |-> "null", v |-> 0]
B(b) == [k |-> "bool", v |-> b]
N(n) == [k |-> "num", v |-> n]
S(s) == [k |-> "str", v |-> s]
\* an object is the sequence of its <<key, value>> pairs in insertion order
O(pairs) == [k |-> "obj", v |-> pairs]
\* an array is the sequence of its items (keys "0", "1", ... in order)
A(items) == [k |-> "arr", v |-> items]

IsObject(x) == x.k \in {"obj", "arr"}
Nullish(x) == x.k \in {"undef", "null"}

\* Boolean(x): the truthiness every `||`, `&&`, `!` and filter(Boolean) uses
Truthy(x) ==
  CASE x.k = "undef" -> FALSE
    [] x.k = "null" -> FALSE
    [] x.k = "bool" -> x.v
    [] x.k = "num" -> x.v # 0
    [] x.k = "str" -> Len(x.v) > 0
    [] OTHER -> TRUE

\* `key in obj` for a parsed JSON object (an array has only index keys)
HasKey(x, key) ==
  x.k = "obj" /\ \E i \in 1..Len(x.v) : x.v[i][1] = key

\* obj.key / obj?.key: undefined when obj is nullish, a primitive, or lacks the key
Get(x, key) ==
  IF HasKey(x, key)
    THEN x.v[CHOOSE i \in 1..Len(x.v) : x.v[i][1] = key][2]
    ELSE Undef

\* x?.[0]
Idx0(x) ==
  CASE x.k = "arr" -> IF Len(x.v) > 0 THEN x.v[1] ELSE Undef
    [] x.k = "str" -> IF Len(x.v) > 0 THEN S(<<x.v[1]>>) ELSE Undef
    [] OTHER -> Get(x, "0")

\* a || b
Or(a, b) == IF Truthy(a) THEN a ELSE b
\* a ?? b
Coalesce(a, b) == IF Nullish(a) THEN b ELSE a

\* Object.keys(obj) order: the children of an object or array, in key order
Children(x) ==
  CASE x.k = "obj" -> [i \in 1..Len(x.v) |-> x.v[i][2]]
    [] x.k = "arr" -> x.v
    [] OTHER -> << >>

(***************************************************************************)
(* Characters and the two patterns                                         *)
(***************************************************************************)
Digits == {"0", "1", "2", "3", "4", "5", "6", "7", "8", "9"}
Letters ==
  {"a", "b", "c", "d", "e", "f", "g", "h", "i", "j", "k", "l", "m",
   "n", "o", "p", "q", "r", "s", "t", "u", "v", "w", "x", "y", "z",
   "A", "B", "C", "D", "E", "F", "G", "H", "I", "J", "K", "L", "M",
   "N", "O", "P", "Q", "R", "S", "T", "U", "V", "W", "X", "Y", "Z"}
\* \s, as far as the texts of the model use it
Spaces == {" ", "\n", "\t"}

\* [A-Za-z0-9._%+-]
EmailLocal == Letters \cup Digits \cup {".", "_", "%", "+", "-"}
\* [A-Za-z0-9.-]
EmailDomain == Letters \cup Digits \cup {".", "-"}
\* [\d()\-\s]
PhoneMid == Digits \cup {"(", ")", "-"} \cup Spaces

\* minimum repetition counts written in the patterns
PhoneMidMin == 7
TldMin == 2

SetMax(X) == CHOOSE m \in X : \A n \in X : n <= m
SetMin(X) == CHOOSE m \in X : \A n \in X : m <= n

\* last index of the longest run of characters of Cls that starts at i
\* (i - 1 when s[i] is not in Cls): what a greedy Cls* consumes
RunEnd(s, i, Cls) ==
  LET stop == {j \in i..Len(s) : s[j] \notin Cls}
  IN IF stop = {} THEN Len(s) ELSE SetMin(stop) - 1

\* PHONE_RE tried at index i: the index of the last character of the match,
\* or 0.  \+? \d [\d()\-\s]{7,} \d with greedy repetition and backtracking:
\* the middle run is taken as long as possible and given back until the
\* character after it is a digit.
PhoneMatchAt(s, i) ==
  LET p == IF s[i] = "+" THEN i + 1 ELSE i
  IN IF p > Len(s) \/ s[p] \notin Digits THEN 0
     ELSE LET q == RunEnd(s, p + 1, PhoneMid)
              ends == {e \in (p + 1 + PhoneMidMin)..q : s[e] \in Digits}
          IN IF ends = {} THEN 0 ELSE SetMax(ends)

\* EMAIL_RE tried at index i: index of the last character of the match, or 0.
\* [local]+ @ [domain]+ \. [A-Za-z]{2,}
EmailMatchAt(s, i) ==
  LET a == RunEnd(s, i, EmailLocal) + 1
  IN IF a = i \/ a > Len(s) \/ s[a] # "@" THEN 0
     ELSE LET q == RunEnd(s, a + 1, EmailDomain)
              dEnds == {j \in (a + 1)..(q - 1 - TldMin) :
                          /\ s[j + 1] = "."
                          /\ \A t \in 1..TldMin : s[j + 1 + t] \in Letters}
          IN IF dEnds = {} THEN 0
             ELSE RunEnd(s, SetMax(dEnds) + 2, Letters)

(***************************************************************************)
(* String.prototype.match with a /g pattern, uniq, normalizePhone          *)
(***************************************************************************)
RECURSIVE PhoneScan(_, _)
\* the successive non-overlapping PHONE_RE matches of s from index i on
PhoneScan(s, i) ==
  IF i > Len(s) THEN << >>
  ELSE LET e == PhoneMatchAt(s, i)
       IN IF e = 0 THEN PhoneScan(s, i + 1)
          ELSE <<SubSeq(s, i, e)>> \o PhoneScan(s, e + 1)

RECURSIVE EmailScan(_, _)
\* the successive non-overlapping EMAIL_RE matches of s from index i on
EmailScan(s, i) ==
  IF i > Len(s) THEN << >>
  ELSE LET e == EmailMatchAt(s, i)
       IN IF e = 0 THEN EmailScan(s, i + 1)
          ELSE <<SubSeq(s, i, e)>> \o EmailScan(s, e + 1)

\* str.match(re): null when nothing matches, else the array of matches
MatchResult(found) ==
  IF found = << >> THEN [isNull |-> TRUE, items |-> << >>]
  ELSE [isNull |-> FALSE, items |-> found]
MatchPhone(s) == MatchResult(PhoneScan(s, 1))
MatchEmail(s) == MatchResult(EmailScan(s, 1))

\* m || []
OrEmpty(m) == IF m.isNull THEN << >> ELSE m.items

RECURSIVE StripNonPhone(_)
\* s.replace(/[^\d+]/g, ""): keeps the digits and every '+'
StripNonPhone(s) ==
  IF s = << >> THEN << >>
  ELSE IF Head(s) \in Digits \cup {"+"}
         THEN <<Head(s)>> \o StripNonPhone(Tail(s))
         ELSE StripNonPhone(Tail(s))
\* variant: the match is stored as it was written
normalizePhoneKeep(s) == s
normalizePhone(s) == StripNonPhone(s)

RECURSIVE SetInsertAll(_, _)
\* new Set(arr) spread back to an array: insertion order, a value already
\* in the set is skipped
SetInsertAll(acc, arr) ==
  IF arr = << >> THEN acc
  ELSE IF \E i \in 1..Len(acc) : acc[i] = Head(arr)
         THEN SetInsertAll(acc, Tail(arr))
         ELSE SetInsertAll(Append(acc, Head(arr)), Tail(arr))

\* filter(Boolean) on an array of strings drops the empty ones
NonEmptyStrings(arr) == SelectSeq(arr, LAMBDA x : x # << >>)
\* variant: no Set, every match is kept
uniqKeepAll(arr) == NonEmptyStrings(arr)
uniq(arr) == SetInsertAll(<< >>, NonEmptyStrings(arr))

RECURSIVE JoinNl(_)
\* arr.join("\n") for an array of strings
JoinNl(arr) ==
  IF arr = << >> THEN << >>
  ELSE IF Len(arr) = 1 THEN arr[1]
  ELSE arr[1] \o <<"\n">> \o JoinNl(Tail(arr))

(***************************************************************************)
(* The page snapshot the two page.evaluate callbacks read                  *)
(*   ld, next : [st |-> "absent" | "malformed" | "empty" | "json", json]   *)
(*              the ld+json script and the #__NEXT_DATA__ script            *)
(*   ogImg, ogDesc : [present, content] the two meta tags                  *)
(***************************************************************************)
CaptionLimit == 6

\* JSON.parse(script.textContent || "{}"): thrown is TRUE on a SyntaxError
ParseScript(script) ==
  CASE script.st = "malformed" -> [thrown |-> TRUE, json |-> Undef]
    [] script.st = "empty" -> [thrown |-> FALSE, json |-> O(<< >>)]
    [] OTHER -> [thrown |-> FALSE, json |-> script.json]

\* document.querySelector(meta)?.content || null
MetaContent(tag) == IF tag.present THEN Or(S(tag.content), Null) ELSE Null

\* the object the `basic` callback of [username].js builds
BasicOut(page) ==
  LET out0 == [bioText |-> Null, profilePic |-> Null,
               externalUrl |-> Null, fullName |-> Null]
      p == ParseScript(page.ld)
      out1 == IF page.ld.st = "absent" \/ p.thrown THEN out0
              ELSE [out0 EXCEPT
                      !.fullName = Or(Get(p.json, "name"), Null),
                      !.profilePic = Or(Get(p.json, "image"), Null),
                      !.bioText = IF Get(p.json, "description").k = "str"
                                    THEN Get(p.json, "description") ELSE @]
      ogImg == MetaContent(page.ogImg)
      out2 == IF ~Truthy(out1.profilePic) /\ Truthy(ogImg)
                THEN [out1 EXCEPT !.profilePic = ogImg] ELSE out1
      ogDesc == MetaContent(page.ogDesc)
  IN IF ~Truthy(out2.bioText) /\ Truthy(ogDesc)
       THEN [out2 EXCEPT !.bioText = ogDesc] ELSE out2

\* the same object in the later revision: the meta element itself is tested,
\* and its content is stored even when it is the empty string
BasicOutRev(page) ==
  LET out0 == [bioText |-> Null, profilePic |-> Null,
               externalUrl |-> Null, fullName |-> Null]
      p == ParseScript(page.ld)
      out1 == IF page.ld.st = "absent" \/ p.thrown THEN out0
              ELSE [out0 EXCEPT
                      !.fullName = IF Truthy(p.json) /\ Truthy(Get(p.json, "name"))
                                     THEN Get(p.json, "name") ELSE Null,
                      !.profilePic = IF Truthy(p.json) /\ Truthy(Get(p.json, "image"))
                                       THEN Get(p.json, "image") ELSE Null,
                      !.bioText = IF Truthy(p.json)
                                     /\ Get(p.json, "description").k = "str"
                                    THEN Get(p.json, "description") ELSE @]
      out2 == IF ~Truthy(out1.profilePic) /\ page.ogImg.present
                THEN [out1 EXCEPT !.profilePic = S(page.ogImg.content)] ELSE out1
  IN IF ~Truthy(out2.bioText) /\ page.ogDesc.present
       THEN [out2 EXCEPT !.bioText = S(page.ogDesc.content)] ELSE out2

\* variant: JSON.parse is not wrapped in try/catch
ReadBasicUncaught(page, rev) ==
  [thrown |-> page.ld.st = "malformed",
   out |-> IF rev THEN BasicOutRev(page) ELSE BasicOut(page)]

\* the `basic` callback as page.evaluate sees it: the SyntaxError of JSON.parse
\* is swallowed by `catch {}`, so the callback never rejects
ReadBasic(page, rev) ==
  [thrown |-> FALSE, out |-> IF rev THEN BasicOutRev(page) ELSE BasicOut(page)]

(***************************************************************************)
(* The boot-data deep search                                               *)
(***************************************************************************)
\* obj.username && ("is_verified" in obj || "is_private" in obj)
Qualifies(obj) ==
  /\ Truthy(Get(obj, "username"))
  /\ (HasKey(obj, "is_verified") \/ HasKey(obj, "is_private"))

RECURSIVE walk(_)
RECURSIVE walkKeys(_, _)
RECURSIVE walkKeysRev(_, _)
\* variant: the keys are taken last to first
walkKeysRev(kids, i) ==
  IF i > Len(kids) THEN Null
  ELSE LET found == walk(kids[Len(kids) + 1 - i])
       IN IF Truthy(found) THEN found ELSE walkKeysRev(kids, i + 1)

\* the for-loop of walk over Object.keys(obj), from the i-th key on
walkKeys(kids, i) ==
  IF i > Len(kids) THEN Null
  ELSE LET found == walk(kids[i])
       IN IF Truthy(found) THEN found ELSE walkKeys(kids, i + 1)
\* walk(obj): the node found, or null.  The parsed JSON is a tree, so the
\* recursion is well founded here; WalkStep below runs the same function on
\* arbitrary object graphs.
walk(obj) ==
  IF ~Truthy(obj) \/ ~IsObject(obj) THEN Null
  ELSE IF Qualifies(obj) THEN obj
  ELSE walkKeys(Children(obj), 1)

\* e?.node?.edge_media_to_caption?.edges?.[0]?.node?.text || ""
CaptionOf(e) ==
  Or(Get(Get(Idx0(Get(Get(Get(e, "node"), "edge_media_to_caption"), "edges")),
             "node"), "text"),
     S(<< >>))

\* user.edge_owner_to_timeline_media.edges.slice(0, 6).map(...), or []
RecentCaptions(user) ==
  LET edges == Get(Get(user, "edge_owner_to_timeline_media"), "edges")
  IN IF edges.k # "arr" THEN << >>
     ELSE [i \in 1..(IF Len(edges.v) < CaptionLimit THEN Len(edges.v)
                     ELSE CaptionLimit) |-> CaptionOf(edges.v[i])]

\* variant: the counts are tested for truthiness, not for being numbers
CountOfTruthy(user, edge, flat) ==
  IF Truthy(Get(Get(user, edge), "count")) THEN Get(Get(user, edge), "count")
  ELSE IF Truthy(Get(user, flat)) THEN Get(user, flat)
  ELSE Null

\* typeof user[edge]?.count === "number" ? ... : typeof user[flat] === "number" ? ... : null
CountOf(user, edge, flat) ==
  IF Get(Get(user, edge), "count").k = "num" THEN Get(Get(user, edge), "count")
  ELSE IF Get(user, flat).k = "num" THEN Get(user, flat)
  ELSE Null

\* what the `enriched` callback returns when it returns null
NoEnriched ==
  [isNull |-> TRUE, fullName |-> Undef, isVerified |-> Undef, isPrivate |-> Undef,
   profilePic |-> Undef, followers |-> Undef, following |-> Undef,
   postsCount |-> Undef, recentCaptions |-> << >>]

\* the object literal returned for the user node found, [username].js
EnrichedOf(user) ==
  [isNull |-> FALSE,
   fullName |-> Coalesce(Get(user, "full_name"), Null),
   isVerified |-> Coalesce(Get(user, "is_verified"), Null),
   isPrivate |-> Coalesce(Get(user, "is_private"), Null),
   profilePic |-> Or(Or(Get(user, "profile_pic_url_hd"),
                        Get(user, "profile_pic_url")), Null),
   followers |-> CountOf(user, "edge_followed_by", "follower_count"),
   following |-> CountOf(user, "edge_follow", "following_count"),
   postsCount |-> CountOf(user, "edge_owner_to_timeline_media", "media_count"),
   recentCaptions |-> RecentCaptions(user)]

\* the same literal in the later revision
EnrichedOfRev(user) ==
  [EnrichedOf(user) EXCEPT
     !.fullName = Or(Get(user, "full_name"), Null),
     !.isVerified = IF Get(user, "is_verified").k = "bool"
                      THEN Get(user, "is_verified") ELSE Null,
     !.isPrivate = IF Get(user, "is_private").k = "bool"
                     THEN Get(user, "is_private") ELSE Null]

\* the `enriched` callback: null without the script, on a parse error
\* (`catch { return null; }`), or when the search finds no node
ReadEnriched(page, rev) ==
  LET p == ParseScript(page.next)
  IN IF page.next.st = "absent" \/ p.thrown
       THEN [thrown |-> FALSE, out |-> NoEnriched]
     ELSE LET user == walk(p.json)
          IN [thrown |-> FALSE,
              out |-> IF ~Truthy(user) THEN NoEnriched
                      ELSE IF rev THEN EnrichedOfRev(user) ELSE EnrichedOf(user)]

(***************************************************************************)
(* The synchronous tail of the handler: corpus, contacts, response body    *)
(***************************************************************************)
RECURSIVE DecimalDigits(_)
DecimalDigits(n) ==
  LET d == <<"0", "1", "2", "3", "4", "5", "6", "7", "8", "9">>[(n % 10) + 1]
  IN IF n < 10 THEN <<d>> ELSE Append(DecimalDigits(n \div 10), d)

\* String(x) as Array.prototype.join applies it to a string or a number
ToStr(x) == IF x.k = "str" THEN x.v ELSE DecimalDigits(x.v)

\* [basic.bioText].concat(enriched?.bioText || []).filter(Boolean).join("\n");
\* the enriched object has no bioText property, so the concat adds nothing
BioText(basic, enriched) ==
  LET parts == SelectSeq(<<basic.bioText>>, Truthy)
  IN JoinNl([i \in 1..Len(parts) |-> ToStr(parts[i])])

\* (enriched?.recentCaptions || []).filter(Boolean)
Captions(enriched) ==
  IF enriched.isNull THEN << >> ELSE SelectSeq(enriched.recentCaptions, Truthy)

\* bioText + "\n" + captions.join("\n")
Corpus(basic, enriched) ==
  LET caps == Captions(enriched)
  IN BioText(basic, enriched) \o <<"\n">>
       \o JoinNl([i \in 1..Len(caps) |-> ToStr(caps[i])])

\* uniq(corpus.match(EMAIL_RE) || [])
EmailsFound(corpus) == uniq(OrEmpty(MatchEmail(corpus)))

\* uniq((corpus.match(PHONE_RE) || []).map(normalizePhone))
PhonesFound(corpus) ==
  LET m == OrEmpty(MatchPhone(corpus))
  IN uniq([i \in 1..Len(m) |-> normalizePhone(m[i])])

\* the body of res.status(200).json(...) in [username].js
SuccessBody(username, basic, enriched) ==
  LET corpus == Corpus(basic, enriched)
  IN [ok |-> TRUE,
      username |-> username,
      full_name |-> Coalesce(Coalesce(enriched.fullName, basic.fullName), Null),
      biography |-> Or(basic.bioText, Null),
      external_url |-> Null,
      profile_pic_url |->
        Coalesce(Coalesce(enriched.profilePic, basic.profilePic), Null),
      is_private |-> Coalesce(enriched.isPrivate, Null),
      is_verified |-> Coalesce(enriched.isVerified, Null),
      followers |-> Coalesce(enriched.followers, Null),
      following |-> Coalesce(enriched.following, Null),
      posts_count |-> Coalesce(enriched.postsCount, Null),
      emails_found |-> EmailsFound(corpus),
      phones_found |-> PhonesFound(corpus)]

\* the same body in the later revision: truthiness tests instead of ??
SuccessBodyRev(username, basic, enriched) ==
  [SuccessBody(username, basic, enriched) EXCEPT
     !.full_name = IF ~enriched.isNull /\ Truthy(enriched.fullName)
                     THEN enriched.fullName
                     ELSE IF Truthy(basic.fullName) THEN basic.fullName ELSE Null,
     !.profile_pic_url = IF ~enriched.isNull /\ Truthy(enriched.profilePic)
                           THEN enriched.profilePic
                           ELSE Or(basic.profilePic, Null),
     !.is_private = IF enriched.isNull THEN Null ELSE enriched.isPrivate,
     !.is_verified = IF enriched.isNull THEN Null ELSE enriched.isVerified,
     !.followers = IF enriched.isNull THEN Null ELSE enriched.followers,
     !.following = IF enriched.isNull THEN Null ELSE enriched.following,
     !.posts_count = IF enriched.isNull THEN Null ELSE enriched.postsCount]

FetchFailedMessage == "Fetch failed (private profile, rate-limited, or layout changed)"

\* variant: the caught error is echoed to the client
CatchResponseLeak(err) ==
  [status |-> 503, body |-> [ok |-> FALSE, error |-> err]]

\* the catch block: the error goes to console.error only
CatchResponse(err) ==
  [status |-> 503, body |-> [ok |-> FALSE, error |-> FetchFailedMessage]]

\* checkAuth(req)
checkAuth(req, required) ==
  LET supplied == IF req.token # "" THEN req.token ELSE req.apiKey
  IN IF required = "" THEN TRUE ELSE supplied = required

(***************************************************************************)
(* The inputs the model draws from: texts, documents, requests             *)
(***************************************************************************)
tHello == <<"h", "i", " ", "t", "h", "e", "r", "e">>
tJoe == <<"c", "o", "n", "t", "a", "c", "t", ":", " ", "j", "o", "e", "@", "x", ".", "c", "o">>
tDup == <<"a", "@", "b", ".", "c", "o", "m", " ", "a", "@", "b", ".", "c", "o", "m">>
tPhone == <<"+", "1", " ", "(", "5", "5", "5", ")", " ", "1", "2", "3", "-", "4", "5", "6", "7">>
tSparse == <<"1", "-", "-", "-", "-", "-", "-", "-", "2">>
tTwo == <<"5", "5", "5", "-", "1", "2", "3", "-", "4", "5", "6", "7", ",", " ", "5", "5", "5", "1", "2", "3", "4", "5", "6", "7", " ", "j", "o", "e", "@", "x", ".", "c", "o">>
tOrder == <<"z", "@", "y", ".", "i", "o", " ", "a", "@", "b", ".", "c", "o", "m", " ", "z", "@", "y", ".", "i", "o">>
tHead == <<"c", "a", "l", "l", " ", "5", "5", "5", " ", "1", "2", "3">>
tTail == <<"4", "5", "6", "7", " ", "n", "o", "w">>
tAnn == <<"A", "n", "n">>
tJoeName == <<"J", "o", "e">>
tGhost == <<"G", "h", "o", "s", "t">>
tUser == <<"a">>
tViewer == <<"m", "e">>
tUrlLd == <<"l", "d", ".", "j", "p", "g">>
tUrlOg == <<"o", "g", ".", "j", "p", "g">>
tUrlHd == <<"h", "d", ".", "j", "p", "g">>
tUrlPic == <<"s", "d", ".", "j", "p", "g">>

\* an object literal in which a pair whose value is Undef is an absent key
Obj(pairs) == O(SelectSeq(pairs, LAMBDA p : p[2].k # "undef"))

\* --- structured metadata (ld+json) ---
LdDoc(name, image, desc) ==
  [st |-> "json",
   json |-> Obj(<< <<"name", name>>, <<"image", image>>, <<"description", desc>> >>)]
LdAbsent == [st |-> "absent", json |-> Undef]
LdMalformed == [st |-> "malformed", json |-> Undef]
LdEmpty == [st |-> "empty", json |-> Undef]
\* documents with a "sameAs" value: one link, and a list of two
tLink == <<"j", "o", "e", ".", "i", "o">>
tLinkAlt == <<"j", "o", "e", ".", "d", "e">>
LdLinked ==
  {[st |-> "json",
    json |-> O(<< <<"name", S(tJoeName)>>, <<"sameAs", v>> >>)] :
     v \in {S(tLink), A(<<S(tLink), S(tLinkAlt)>>)}}
LdNames == {Undef, S(<< >>), S(tJoeName)}
LdScripts ==
  {LdAbsent, LdMalformed, LdEmpty, [st |-> "json", json |-> Null]}
    \cup {LdDoc(n, Undef, S(tHello)) : n \in LdNames}
    \cup {LdDoc(S(tJoeName), S(tUrlLd), d) : d \in {Undef, N(5), S(<< >>), S(tPhone), S(tHead)}}
    \cup LdLinked

\* --- meta tags ---
NoTag == [present |-> FALSE, content |-> << >>]
Tag(c) == [present |-> TRUE, content |-> c]
OgImgTags == {NoTag, Tag(<< >>), Tag(tUrlOg)}
OgDescTags == {NoTag, Tag(<< >>), Tag(tJoe), Tag(tSparse)}

\* --- boot data (#__NEXT_DATA__) ---
\* user[edge]: absent when c is Undef, null when c is Null, else {count: c}
EdgeObj(c) ==
  IF c.k = "undef" THEN Undef
  ELSE IF c.k = "null" THEN Null
  ELSE O(<< <<"count", c>> >>)

\* one entry of edge_owner_to_timeline_media.edges carrying caption text t;
\* Undef gives an entry whose caption path is broken
CapEdge(t) ==
  IF t.k = "undef" THEN O(<< <<"id", N(1)>> >>)
  ELSE O(<< <<"node", O(<< <<"edge_media_to_caption",
        O(<< <<"edges", A(<< O(<< <<"node", O(<< <<"text", t>> >>)>> >>) >>)>> >>)>> >>)>> >>)

\* edge_owner_to_timeline_media: {count, edges}, absent when both are
Timeline(count, caps) ==
  IF count.k = "undef" /\ caps.k = "undef" THEN Undef
  ELSE Obj(<< <<"count", count>>,
              <<"edges", IF caps.k = "undef" THEN Undef
                         ELSE A([i \in 1..Len(caps.v) |-> CapEdge(caps.v[i])])>> >>)

BaseUser ==
  [username |-> S(tUser), fn |-> S(tAnn), ver |-> B(TRUE), priv |-> B(FALSE),
   hd |-> Undef, pic |-> Undef, fEdge |-> Undef, fFlat |-> Undef,
   gEdge |-> Undef, gFlat |-> Undef, mCount |-> Undef, mFlat |-> Undef,
   caps |-> Undef, owner |-> Undef]

MkUser(u) ==
  Obj(<< <<"username", u.username>>, <<"full_name", u.fn>>,
         <<"is_verified", u.ver>>, <<"is_private", u.priv>>,
         <<"profile_pic_url", u.pic>>, <<"profile_pic_url_hd", u.hd>>,
         <<"edge_followed_by", EdgeObj(u.fEdge)>>, <<"follower_count", u.fFlat>>,
         <<"edge_follow", EdgeObj(u.gEdge)>>, <<"following_count", u.gFlat>>,
         <<"edge_owner_to_timeline_media", Timeline(u.mCount, u.caps)>>,
         <<"media_count", u.mFlat>>, <<"owner", u.owner>> >>)

FullNames == {Undef, Null, S(<< >>), S(tAnn)}
FlagPairs ==
  {<<Undef, B(TRUE)>>, <<B(FALSE), Undef>>, <<Null, S(tHello)>>, <<B(TRUE), B(TRUE)>>}
EdgeCounts == {Undef, Null, N(0), N(10), S(tHello)}
FlatCounts == {Undef, N(0), N(7)}
PicPairs ==
  {<<S(tUrlHd), S(tUrlPic)>>, <<Undef, S(tUrlPic)>>, <<S(<< >>), S(tUrlPic)>>}
CaptionLists ==
  {A(<< >>),
   A(<<S(tDup)>>),
   A(<<S(tTwo), Undef, Null, S(tOrder)>>),
   A(<<S(tTail), N(155512345)>>),
   A(<<S(tHello), S(tHello), S(tHello), S(tHello), S(tHello), S(tPhone), S(tJoe)>>)}

UserRecords ==
  {[BaseUser EXCEPT !.fn = f] : f \in FullNames}
    \cup {[BaseUser EXCEPT !.ver = p[1], !.priv = p[2]] : p \in FlagPairs}
    \cup {[BaseUser EXCEPT !.fEdge = e, !.fFlat = f, !.gEdge = f, !.gFlat = N(3),
                           !.mCount = e, !.mFlat = f] :
            e \in EdgeCounts, f \in FlatCounts}
    \cup {[BaseUser EXCEPT !.hd = p[1], !.pic = p[2]] : p \in PicPairs}
    \cup {[BaseUser EXCEPT !.caps = c, !.mFlat = N(2)] : c \in CaptionLists}

\* the node nested where the page's boot data carries it
Nested(user) ==
  O(<< <<"props", O(<< <<"pageProps", O(<< <<"user", user>> >>)>> >>)>>,
       <<"page", S(tHello)>> >>)

Viewer == MkUser([BaseUser EXCEPT !.username = S(tViewer), !.fn = S(tJoeName),
                                  !.fFlat = N(1)])
Profile == MkUser([BaseUser EXCEPT !.fEdge = N(10)])
NoName == MkUser([BaseUser EXCEPT !.username = S(<< >>), !.fn = S(tGhost)])
NoFlags == MkUser([BaseUser EXCEPT !.ver = Undef, !.priv = Undef, !.fn = S(tGhost)])

ShapeDocs ==
  {Null, N(5), S(tHello), O(<< >>), A(<< >>),
   Nested(N(1)),
   Nested(NoName),
   Nested(NoFlags),
   O(<< <<"ghost", NoName>>, <<"user", Profile>> >>),
   O(<< <<"viewer", Viewer>>, <<"user", Profile>> >>),
   O(<< <<"user", Profile>>, <<"viewer", Viewer>> >>),
   O(<< <<"a", O(<< <<"b", NoFlags>>, <<"c", Viewer>> >>)>>, <<"user", Profile>> >>),
   A(<< N(1), Null, A(<<Profile, Viewer>>) >>),
   Nested(MkUser([BaseUser EXCEPT !.owner = Viewer])),
   Nested(MkUser([BaseUser EXCEPT !.ver = Undef, !.priv = Undef, !.owner = Viewer]))}

NextAbsent == [st |-> "absent", json |-> Undef]
NextMalformed == [st |-> "malformed", json |-> Undef]
NextEmpty == [st |-> "empty", json |-> Undef]
NextScripts ==
  {NextAbsent, NextMalformed, NextEmpty}
    \cup {[st |-> "json", json |-> Nested(MkUser(u))] : u \in UserRecords}
    \cup {[st |-> "json", json |-> d] : d \in ShapeDocs}

Pages ==
  [ld : LdScripts, ogImg : OgImgTags, ogDesc : OgDescTags, next : NextScripts]

\* --- requests: req.query.username, req.query.token, the x-api-key header ---
Requests ==
  {[username |-> S(tUser), token |-> "", apiKey |-> ""],
   [username |-> S(tUser), token |-> "", apiKey |-> "tok"],
   [username |-> S(tUser), token |-> "bad", apiKey |-> "tok"],
   [username |-> Undef, token |-> "tok", apiKey |-> ""],
   [username |-> A(<<S(tUser), S(tViewer)>>), token |-> "", apiKey |-> ""]}
\* process.env.IG_OSINT_TOKEN || ""
Tokens == {"", "tok"}

(***************************************************************************)
(* The handler as a state machine: one action per await                    *)
(***************************************************************************)
VARIABLES
  file,      \* "bracket": api/profile/[username].js, "rev": the later revision
  required,  \* process.env.IG_OSINT_TOKEN || ""
  req,       \* the request
  pc,        \* the statement the handler is suspended at
  browser,   \* "none" (undefined), "open", "closed"
  page,      \* the snapshot the navigation produced, NoPage before it
  basic,     \* result of the first page.evaluate
  enriched,  \* result of the second page.evaluate
  thrown,    \* the error the try block threw ("" when none)
  sent,      \* the responses written to res, in order
  closes,    \* the outcomes of the browser.close() calls, in order
  graph,     \* the object graph handed to walk (used by SpecWalk only)
  stack,     \* the call stack of walk: one frame [obj, i] per active call
  visits,    \* how many times walk was entered on each object
  wres       \* [st, found]: the state of the walk and the object it returned

handlerVars ==
  <<file, required, req, pc, browser, page, basic, enriched, thrown, sent, closes>>
walkVars == <<graph, stack, visits, wres>>
vars == <<handlerVars, walkVars>>

NoPage == [ld |-> LdAbsent, ogImg |-> NoTag, ogDesc |-> NoTag, next |-> NextAbsent]
NoBasic == [bioText |-> Null, profilePic |-> Null, externalUrl |-> Null, fullName |-> Null]

\* the awaits of the try block, in program order
Steps == <<"executablePath", "launch", "newPage", "setUserAgent",
           "setExtraHTTPHeaders", "goto", "evalBasic", "evalEnriched">>
StepAfter(step) ==
  LET i == CHOOSE j \in 1..Len(Steps) : Steps[j] = step
  IN IF i < Len(Steps) THEN Steps[i + 1] ELSE "finally"

Init ==
  /\ file \in {"bracket", "rev"}
  /\ required \in Tokens
  /\ req \in Requests
  /\ pc = "start"
  /\ browser = "none"
  /\ page = NoPage
  /\ basic = NoBasic
  /\ enriched = NoEnriched
  /\ thrown = ""
  /\ sent = << >>
  /\ closes = << >>
  /\ graph = << >>
  /\ stack = << >>
  /\ visits = << >>
  /\ wres = [st |-> "idle", found |-> 0]

\* if (!checkAuth(req)) { res.status(401)...; return; }
Reject401 ==
  /\ pc = "start"
  /\ ~checkAuth(req, required)
  /\ sent' = Append(sent, [status |-> 401,
                           body |-> [ok |-> FALSE, error |-> "Unauthorized"]])
  /\ pc' = "done"
  /\ UNCHANGED <<file, required, req, browser, page, basic, enriched, thrown, closes>>
  /\ UNCHANGED walkVars

\* if (!username || typeof username !== "string") { res.status(400)...; return; }
Reject400 ==
  /\ pc = "start"
  /\ checkAuth(req, required)
  /\ (~Truthy(req.username) \/ req.username.k # "str")
  /\ sent' = Append(sent, [status |-> 400,
                           body |-> [ok |-> FALSE, error |-> "username required in path"]])
  /\ pc' = "done"
  /\ UNCHANGED <<file, required, req, browser, page, basic, enriched, thrown, closes>>
  /\ UNCHANGED walkVars

\* both checks pass: the try block is entered
Accept ==
  /\ pc = "start"
  /\ checkAuth(req, required)
  /\ Truthy(req.username) /\ req.username.k = "str"
  /\ pc' = "executablePath"
  /\ UNCHANGED <<file, required, req, browser, page, basic, enriched, thrown, sent, closes>>
  /\ UNCHANGED walkVars

\* await chromium.executablePath()
ExecutablePath ==
  /\ pc = "executablePath"
  /\ pc' = StepAfter(pc)
  /\ UNCHANGED <<file, required, req, browser, page, basic, enriched, thrown, sent, closes>>
  /\ UNCHANGED walkVars

\* browser = await puppeteer.launch(...)
Launch ==
  /\ pc = "launch"
  /\ browser' = "open"
  /\ pc' = StepAfter(pc)
  /\ UNCHANGED <<file, required, req, page, basic, enriched, thrown, sent, closes>>
  /\ UNCHANGED walkVars

\* browser.newPage(), page.setUserAgent(...), page.setExtraHTTPHeaders(...)
PageSetup ==
  /\ pc \in {"newPage", "setUserAgent", "setExtraHTTPHeaders"}
  /\ pc' = StepAfter(pc)
  /\ UNCHANGED <<file, required, req, browser, page, basic, enriched, thrown, sent, closes>>
  /\ UNCHANGED walkVars

\* await page.goto(url, ...): the document that comes back is the environment's
Goto ==
  /\ pc = "goto"
  /\ page' \in Pages
  /\ pc' = StepAfter(pc)
  /\ UNCHANGED <<file, required, req, browser, basic, enriched, thrown, sent, closes>>
  /\ UNCHANGED walkVars

\* const basic = await page.evaluate(...)
EvalBasic ==
  /\ pc = "evalBasic"
  /\ LET r == ReadBasic(page, file = "rev")
     IN IF r.thrown
          THEN /\ thrown' = "SyntaxError"
               /\ sent' = Append(sent, CatchResponse("SyntaxError"))
               /\ pc' = "finally"
               /\ UNCHANGED basic
          ELSE /\ basic' = r.out
               /\ pc' = StepAfter(pc)
               /\ UNCHANGED <<thrown, sent>>
  /\ UNCHANGED <<file, required, req, browser, page, enriched, closes>>
  /\ UNCHANGED walkVars

\* const enriched = await page.evaluate(...), then the synchronous rest of the
\* try block up to res.status(200).json(...)
EvalEnriched ==
  /\ pc = "evalEnriched"
  /\ LET r == ReadEnriched(page, file = "rev")
     IN IF r.thrown
          THEN /\ thrown' = "SyntaxError"
               /\ sent' = Append(sent, CatchResponse("SyntaxError"))
               /\ UNCHANGED enriched
          ELSE /\ enriched' = r.out
               /\ sent' = Append(sent,
                    [status |-> 200,
                     body |-> IF file = "rev"
                                THEN SuccessBodyRev(req.username, basic, r.out)
                                ELSE SuccessBody(req.username, basic, r.out)])
               /\ UNCHANGED thrown
  /\ pc' = "finally"
  /\ UNCHANGED <<file, required, req, browser, page, basic, closes>>
  /\ UNCHANGED walkVars

\* the awaited call rejects: control goes to the catch block
Fail ==
  /\ \E i \in 1..Len(Steps) : pc = Steps[i]
  /\ thrown' = pc
  /\ sent' = Append(sent, CatchResponse(pc))
  /\ pc' = "finally"
  /\ UNCHANGED <<file, required, req, browser, page, basic, enriched, closes>>
  /\ UNCHANGED walkVars

\* variant: browser.close() is awaited without its own try/catch, so its
\* rejection leaves the handler as an unhandled error
FinallyCloseUncaught ==
  /\ pc = "finally"
  /\ \/ /\ browser = "none"
        /\ pc' = "done"
        /\ UNCHANGED <<browser, closes>>
     \/ /\ browser = "open"
        /\ \E outcome \in {"closed", "threw"} :
             /\ closes' = Append(closes, outcome)
             /\ browser' = IF outcome = "closed" THEN "closed" ELSE "open"
             /\ pc' = IF outcome = "closed" THEN "done" ELSE "rejected"
  /\ UNCHANGED <<file, required, req, page, basic, enriched, thrown, sent>>
  /\ UNCHANGED walkVars

\* finally { if (browser) { try { await browser.close(); } catch {} } }
Finally ==
  /\ pc = "finally"
  /\ \/ /\ browser = "none"
        /\ UNCHANGED <<browser, closes>>
     \/ /\ browser = "open"
        /\ \E outcome \in {"closed", "threw"} :
             /\ closes' = Append(closes, outcome)
             /\ browser' = IF outcome = "closed" THEN "closed" ELSE "open"
  /\ pc' = "done"
  /\ UNCHANGED <<file, required, req, page, basic, enriched, thrown, sent>>
  /\ UNCHANGED walkVars

Next ==
  \/ Reject401
  \/ Reject400
  \/ Accept
  \/ ExecutablePath
  \/ Launch
  \/ PageSetup
  \/ Goto
  \/ EvalBasic
  \/ EvalEnriched
  \/ Fail
  \/ Finally

Spec == Init /\ [][Next]_vars

(***************************************************************************)
(* walk run call by call on an object graph                                *)
(*                                                                         *)
(* The recursive operator walk above is defined on trees.  Here the same   *)
(* function is executed one call at a time on a graph of objects with      *)
(* identity, in which an object may be the value of several keys or of one *)
(* of its own keys.  graph[o] gives, for object o, whether it passes the   *)
(* test of line 96 and the values of its keys in Object.keys order (0 is a *)
(* value that is not an object).                                           *)
(***************************************************************************)
NumNodes == 3
MaxKids == 2
\* depth at which the engine raises RangeError (maximum call stack size)
MaxStack == 5

Nodes == 1..NumNodes
KidSeqs == UNION {[1..n -> 0..NumNodes] : n \in 0..MaxKids}
WalkGraphs == [Nodes -> [qualifies : BOOLEAN, kids : KidSeqs]]

InitWalk ==
  /\ file = "bracket"
  /\ required = ""
  /\ req = [username |-> S(tUser), token |-> "", apiKey |-> ""]
  /\ pc = "evalEnriched"
  /\ browser = "open"
  /\ page = NoPage
  /\ basic = NoBasic
  /\ enriched = NoEnriched
  /\ thrown = ""
  /\ sent = << >>
  /\ closes = << >>
  /\ graph \in WalkGraphs
  /\ stack = << >>
  /\ visits = [o \in Nodes |-> 0]
  /\ wres = [st |-> "idle", found |-> 0]

\* walk(obj) is entered on object o (lines 95-96): the object that passes the
\* test is returned, and every caller returns it in turn (line 99)
WalkEnter(o) ==
  /\ visits' = [visits EXCEPT ![o] = @ + 1]
  /\ IF graph[o].qualifies
       THEN /\ wres' = [st |-> "returned", found |-> o]
            /\ stack' = << >>
       ELSE /\ wres' = [st |-> "running", found |-> 0]
            /\ stack' = Append(stack, [obj |-> o, i |-> 1])

\* const user = walk(json)
WalkCall ==
  /\ wres.st = "idle"
  /\ WalkEnter(1)
  /\ UNCHANGED <<handlerVars, graph>>

\* the top call takes its next key: const found = walk(obj[k])
WalkKey ==
  /\ wres.st = "running"
  /\ LET f == stack[Len(stack)]
         kid == graph[f.obj].kids[f.i]
     IN /\ f.i <= Len(graph[f.obj].kids)
        /\ IF kid = 0
             \* not an object: line 95 returns null, the loop goes on
             THEN /\ stack' = [stack EXCEPT ![Len(stack)].i = @ + 1]
                  /\ UNCHANGED <<visits, wres>>
           ELSE IF Len(stack) >= MaxStack
             \* the call does not fit on the stack: RangeError, which
             \* unwinds every call and is caught at line 138
             THEN /\ wres' = [st |-> "threw", found |-> 0]
                  /\ stack' = << >>
                  /\ UNCHANGED visits
           ELSE WalkEnter(kid)
  /\ UNCHANGED <<handlerVars, graph>>

\* the top call has run out of keys: return null (line 101); its caller
\* moves on to its next key
WalkReturn ==
  /\ wres.st = "running"
  /\ LET f == stack[Len(stack)]
         rest == SubSeq(stack, 1, Len(stack) - 1)
     IN /\ f.i > Len(graph[f.obj].kids)
        /\ IF rest = << >>
             THEN /\ wres' = [st |-> "returned", found |-> 0]
                  /\ stack' = << >>
             ELSE /\ stack' = [rest EXCEPT ![Len(rest)].i = @ + 1]
                  /\ UNCHANGED wres
  /\ UNCHANGED <<handlerVars, graph, visits>>

NextWalk ==
  \/ WalkCall
  \/ WalkKey
  \/ WalkReturn

SpecWalk == InitWalk /\ [][NextWalk]_vars

(***************************************************************************)
(* Properties                                                              *)
(***************************************************************************)
\* the handler answered 200; Body is then the JSON it sent
Responded200 == sent # << >> /\ sent[1].status = 200
Body == sent[1].body

\* the parsed boot data and structured metadata of the snapshot (Undef when
\* the script is missing or does not parse)
BootJson ==
  IF page.next.st = "json" THEN page.next.json
  ELSE IF page.next.st = "empty" THEN O(<< >>) ELSE Undef
LdJson ==
  IF page.ld.st = "json" THEN page.ld.json
  ELSE IF page.ld.st = "empty" THEN O(<< >>) ELSE Undef
\* the user node of the boot data, Null when there is none
BootNode == walk(BootJson)

\* "present" in the sense of the field resolver: neither null nor absent
Supplied(x) == ~Nullish(x)

\* C1: when the boot-data user node and the structured-metadata document both
\* supply a full name, full_name is the boot-data value; when only structured
\* metadata supplies one, full_name is that value; when neither does,
\* full_name is null.
C1_FullNamePriority ==
  Responded200 =>
    LET boot == Get(BootNode, "full_name")
        ld == Get(LdJson, "name")
    IN /\ (Supplied(boot) /\ Supplied(ld)) => Body.full_name = boot
       /\ (~Supplied(boot) /\ Supplied(ld)) => Body.full_name = ld
       /\ (~Supplied(boot) /\ ~Supplied(ld)) => Body.full_name = Null

\* the numeric values the user node offers for a count
NumericSources(user, edge, flat) ==
  {c \in {Get(Get(user, edge), "count"), Get(user, flat)} : c.k = "num"}

\* C2: without a source for the follower count followers is null, a supplied
\* count of 0 is reported as 0, and followers, following, posts_count,
\* is_private and is_verified are never anything but null or a value the
\* user node carries.
C2_UnknownNotFabricated ==
  Responded200 =>
    LET u == BootNode
        f == NumericSources(u, "edge_followed_by", "follower_count")
        g == NumericSources(u, "edge_follow", "following_count")
        m == NumericSources(u, "edge_owner_to_timeline_media", "media_count")
    IN /\ (f = {}) => Body.followers = Null
       /\ (f # {}) => Body.followers \in f
       /\ (f = {N(0)}) => Body.followers = N(0)
       /\ Body.following \in g \cup {Null}
       /\ Body.posts_count \in m \cup {Null}
       /\ Body.is_private \in {Null, Get(u, "is_private")}
       /\ Body.is_verified \in {Null, Get(u, "is_verified")}
       /\ (u = Null) =>
            /\ Body.following = Null /\ Body.posts_count = Null
            /\ Body.is_private = Null /\ Body.is_verified = Null

\* C2 witness: a user node whose only follower count is 0 was answered with 0
C2_Witness ==
  /\ Responded200
  /\ NumericSources(BootNode, "edge_followed_by", "follower_count") = {N(0)}
  /\ Body.followers = N(0)

\* the bio-like texts of the snapshot: the structured-metadata description
\* when it is a string, and the content of the og:description tag
BioTexts ==
  (IF Get(LdJson, "description").k = "str"
     THEN {Get(LdJson, "description").v} ELSE {})
  \cup (IF page.ogDesc.present THEN {page.ogDesc.content} ELSE {})

Elems(seq) == {seq[i] : i \in 1..Len(seq)}

\* C3: every email written in any bio-like text of the snapshot, also in one
\* that lost the biography priority, is reported in emails_found.
C3_CorpusAllSources ==
  Responded200 =>
    \A t \in BioTexts : Elems(EmailScan(t, 1)) \subseteq Elems(Body.emails_found)

\* the text the handler scanned
ScannedCorpus == Corpus(basic, enriched)
DigitCount(s) == Cardinality({i \in 1..Len(s) : s[i] \in Digits})

\* C4: every PHONE_RE match in the corpus has at least nine digits, ends on
\* a digit, and starts on a digit or on a '+' followed by a digit.
C4_PhoneNineDigits ==
  Responded200 =>
    \A m \in Elems(PhoneScan(ScannedCorpus, 1)) :
      /\ DigitCount(m) >= 9
      /\ m[Len(m)] \in Digits
      /\ (m[1] \in Digits \/ (m[1] = "+" /\ m[2] \in Digits))

tPhoneNormalized == <<"+", "1", "5", "5", "5", "1", "2", "3", "4", "5", "6", "7">>

\* C5: every entry of phones_found is digits, optionally after one leading
\* '+'; the corpus "+1 (555) 123-4567" gives the entry "+15551234567".
C5_PhonesNormalized ==
  Responded200 =>
    /\ \A e \in Elems(Body.phones_found) :
         /\ Len(e) > 0
         /\ \A i \in 1..Len(e) : e[i] \in Digits \/ (i = 1 /\ e[i] = "+")
    /\ (ScannedCorpus = tPhone \o <<"\n">>) =>
         Body.phones_found = <<tPhoneNormalized>>

\* C5 witness: the example corpus was scanned and normalized
C5_Witness ==
  /\ Responded200
  /\ ScannedCorpus = tPhone \o <<"\n">>
  /\ Body.phones_found = <<tPhoneNormalized>>

FirstIndex(seq, x) == SetMin({i \in 1..Len(seq) : seq[i] = x})
\* out is inp without its empty strings and repetitions, in first-seen order
FirstSeenDedup(out, inp) ==
  /\ \A i, j \in 1..Len(out) : i # j => out[i] # out[j]
  /\ Elems(out) = Elems(inp) \ {<< >>}
  /\ \A i, j \in 1..Len(out) :
       i < j => FirstIndex(inp, out[i]) < FirstIndex(inp, out[j])

RawEmails == EmailScan(ScannedCorpus, 1)
RawPhones ==
  LET m == PhoneScan(ScannedCorpus, 1)
  IN [i \in 1..Len(m) |-> StripNonPhone(m[i])]

\* C6: emails_found and phones_found hold no string twice and keep the order
\* of first occurrence in the corpus; without matches they are empty.
C6_DedupFirstSeen ==
  Responded200 =>
    /\ FirstSeenDedup(Body.emails_found, RawEmails)
    /\ FirstSeenDedup(Body.phones_found, RawPhones)
    /\ (RawEmails = << >>) => Body.emails_found = << >>
    /\ (RawPhones = << >>) => Body.phones_found = << >>

\* C6 witness: repeated matches were collapsed and two distinct ones kept in order
C6_Witness ==
  /\ Responded200
  /\ Len(Body.emails_found) >= 2
  /\ Len(RawEmails) > Len(Body.emails_found)
  /\ Len(RawPhones) > Len(Body.phones_found)

WalkEndsByReturning == wres.st # "threw"

RECURSIVE PreOrder(_)
RECURSIVE PreOrderAll(_)
\* the objects of a parsed document in depth-first pre-order, keys in
\* insertion order
PreOrder(x) ==
  IF Truthy(x) /\ IsObject(x) THEN <<x>> \o PreOrderAll(Children(x)) ELSE << >>
PreOrderAll(kids) ==
  IF kids = << >> THEN << >> ELSE PreOrder(Head(kids)) \o PreOrderAll(Tail(kids))

HasFlagKey(n) == HasKey(n, "is_verified") \/ HasKey(n, "is_private")
\* a node with a non-empty (truthy) username and one of the two flag keys
UserShaped(n) == Truthy(Get(n, "username")) /\ HasFlagKey(n)
\* a node with a non-null username and one of the two flag keys
UserShapedNonNull(n) == ~Nullish(Get(n, "username")) /\ HasFlagKey(n)

\* the enriched object the deployed file builds from a node
EnrichedFrom(n) == IF file = "rev" THEN EnrichedOfRev(n) ELSE EnrichedOf(n)

Accepted == pc # "start" /\ ~(sent # << >> /\ sent[1].status \in {400, 401})
Finished == pc \in {"finally", "done"}

\* C9: when an awaited step of the fetch fails, the one response is 503 with
\* exactly ok=false and the fixed error string; every other accepted request
\* is answered 200 with ok=true.
C9_FailureOutcome ==
  (Accepted /\ Finished) =>
    /\ Len(sent) = 1
    /\ (thrown # "") =>
         /\ sent[1].status = 503
         /\ DOMAIN sent[1].body = {"ok", "error"}
         /\ sent[1].body.ok = FALSE
         /\ sent[1].body.error = FetchFailedMessage
    /\ (thrown = "") => (sent[1].status = 200 /\ sent[1].body.ok = TRUE)

\* C9 witness: the second page evaluation failed after a snapshot with a
\* user node had loaded, and the 503 body was the response
C9_Witness ==
  /\ pc = "done" /\ thrown = "evalEnriched"
  /\ Truthy(BootNode)
  /\ sent = <<[status |-> 503, body |-> [ok |-> FALSE, error |-> FetchFailedMessage]]>>

\* what the og:description / og:image tags alone give
OgDescValue == IF page.ogDesc.present /\ page.ogDesc.content # << >>
                 THEN S(page.ogDesc.content) ELSE Null
OgImgValue == IF page.ogImg.present /\ page.ogImg.content # << >>
                THEN S(page.ogImg.content) ELSE Null

\* C10: a script that does not parse never makes the handler fail; with
\* unparsable structured metadata the meta tags still give biography and
\* (unless the boot data has a picture) profile_pic_url, and with unparsable
\* boot data the structured-metadata and meta-tag values are still used.
C10_ParseFailureLocal ==
  /\ thrown # "SyntaxError"
  /\ (Finished /\ Accepted /\ thrown = "" /\ page.ld.st = "malformed") =>
       /\ Responded200
       /\ Body.biography = OgDescValue
       /\ ~Truthy(Get(BootNode, "profile_pic_url_hd"))
            /\ ~Truthy(Get(BootNode, "profile_pic_url"))
          => Body.profile_pic_url = OgImgValue
       /\ Body.full_name \in {Null, Get(BootNode, "full_name")}
  /\ (Finished /\ Accepted /\ thrown = "" /\ page.next.st = "malformed") =>
       /\ Responded200
       /\ Body.followers = Null /\ Body.is_private = Null
       /\ Body.full_name = Or(Get(LdJson, "name"), Null)
       /\ Body.biography \in
            {Null, OgDescValue, Get(LdJson, "description")}
       /\ (Get(LdJson, "description").k = "str"
             /\ Get(LdJson, "description").v # << >>)
            => Body.biography = Get(LdJson, "description")

\* C10 witness: both scripts failed to parse and the meta tags filled
\* biography and profile_pic_url of a 200 response
C10_Witness ==
  /\ Responded200
  /\ page.ld.st = "malformed" /\ page.next.st = "malformed"
  /\ Body.biography = S(tJoe)
  /\ Body.profile_pic_url = S(tUrlOg)
  /\ Body.emails_found = <<<<"j", "o", "e", "@", "x", ".", "c", "o">>>>

\* the "sameAs" value of the structured-metadata document: the value itself,
\* or the first entry when it is a list
SameAsValue ==
  LET v == Get(LdJson, "sameAs")
  IN IF v.k = "arr" THEN Idx0(v) ELSE v

\* C11: when the structured-metadata document parses and has a "sameAs"
\* value, external_url carries it (first/only value); external_url is null
\* only when structured metadata supplies no such value.
C11_ExternalUrlFromSameAs ==
  Responded200 =>
    /\ Supplied(SameAsValue) => Body.external_url = SameAsValue
    /\ (Body.external_url = Null) => ~Supplied(SameAsValue)

\* the browser was launched: `browser` holds the object puppeteer.launch gave
Launched == browser # "none"

\* C12: when the browser was launched, browser.close() is attempted exactly
\* once, after the single response (200 or 503), on the success and on the
\* failure path; a failing close neither leaves the handler as an error nor
\* changes or adds a response.  A request answered 401 or 400 never launches
\* the browser.
C12_CloseOnceAfterResponse ==
  /\ [](/\ (pc = "done" /\ Launched) => Len(closes) = 1
        /\ (closes # << >>) =>
             /\ pc = "done"
             /\ Len(closes) = 1
             /\ Len(sent) = 1
             /\ sent[1].status = IF thrown = "" THEN 200 ELSE 503
        /\ (~Launched) => closes = << >>
        /\ (sent # << >> /\ sent[1].status \in {400, 401}) =>
             (~Launched /\ pc = "done"))
  /\ [][(closes' # closes) =>
          (pc = "finally" /\ Len(sent) = 1 /\ sent' = sent /\ thrown' = thrown)]_vars

\* C12 witness: after a 200 response the one browser.close() call threw and
\* the handler still ended normally with that response alone
C12_Witness ==
  /\ pc = "done"
  /\ closes = <<"threw">>
  /\ Len(sent) = 1 /\ sent[1].status = 200

====
